---- MODULE Spec2Model ----
(***************************************************************************)
(* The spreadsheet import server: POST /api/upload (validate and map every *)
(* row of every sheet of a workbook) and POST /api/import (filter the      *)
(* mapped rows and bulk-insert them as Records).                           *)
(*                                                                         *)
(* JavaScript values are records [k, s, n]: k is the runtime kind, s the   *)
(* text of a string as a tuple of one-character strings, n the number.     *)
(* Numbers are counted in thousandths (5 is 5000, 0.01 is 10).  Instants   *)
(* are kept at month resolution, as the month index year * 12 + month0     *)
(* in the server's zone, which the model takes to be UTC.                  *)
(***************************************************************************)
EXTENDS Integers, Sequences, FiniteSets, TLC

VARIABLES
    now,               \* the server clock's month index (new Date())
    wide,              \* input regime: one row over the full cell product, or small workbooks
    pc,                \* "idle", "rejected", "uploading", "uploaded", "importing", "filtered", "imported"
    headerRows,        \* history: the header row of each sheet of the workbook, in sheet order
    filled,            \* history: the numbers of the data rows of each sheet that hold a value
    sheetNames,        \* upload: names of the sheets, in sheet order
    sheetData,         \* upload: sheet name -> sequence of MappedRow
    validationErrors,  \* upload: sheet name -> sequence of {row, error}
    visited,           \* history: sheet name -> the eachRow calls [rowNumber, rowObject, errors, mapped]
    body,              \* import: the shape of the request body
    cursor,            \* import: position of the for-in loop over data
    current,           \* import: the locals of the turn of the loop under way
    importedCount,     \* import: the running count
    db,                \* the Record collection, in insertion order
    inserts,           \* history: the insertMany calls of the request [sheet, docs, ok]
    res                \* the last response [status, kind, count]

vars == <<now, wide, pc, headerRows, filled, sheetNames, sheetData, validationErrors, visited,
          body, cursor, current, importedCount, db, inserts, res>>

----------------------------------------------------------------------------
(* Bounds *)

\* sheets of an uploaded workbook
MaxSheets == 2
\* rows of an uploaded worksheet, the header row counted
MaxRowNumber == 3
\* sheets of a posted body
MaxImportSheets == 3
\* rows of a sheet of a posted body
MaxImportRows == 3

Scale == 10 * 10 * 10

----------------------------------------------------------------------------
(* JavaScript values *)

Val(k, s, n) == [k |-> k, s |-> s, n |-> n]
Undefined == Val("undefined", <<>>, 0)
Null == Val("null", <<>>, 0)
Str(s) == Val("string", s, 0)
Num(n) == Val("number", <<>>, n)
NaN == Val("NaN", <<>>, 0)
Bool(b) == Val("boolean", <<>>, IF b THEN 1 ELSE 0)
DateOf(m) == Val("Date", <<>>, m)
InvalidDate == Val("InvalidDate", <<>>, 0)

MonthIndex(year, month0) == year * 12 + month0

DigitChars == <<"0", "1", "2", "3", "4", "5", "6", "7", "8", "9">>

IsDigit(c) == c \in {"0", "1", "2", "3", "4", "5", "6", "7", "8", "9"}

DigitVal(c) == CHOOSE d \in 0..9 : DigitChars[d + 1] = c

\* JavaScript truthiness, as used by `&& rowObject[excelColumn]` and `&& row.name`
Truthy(v) ==
    CASE v.k = "undefined" -> FALSE
      [] v.k = "null" -> FALSE
      [] v.k = "NaN" -> FALSE
      [] v.k = "string" -> v.s # <<>>
      [] v.k = "number" -> v.n # 0
      [] v.k = "boolean" -> v.n = 1
      [] OTHER -> TRUE

\* value === undefined || value === null || value === ''
IsEmptyValue(v) == v.k = "undefined" \/ v.k = "null" \/ (v.k = "string" /\ v.s = <<>>)

----------------------------------------------------------------------------
(* parseFloat *)

RECURSIVE SkipWhite(_, _)
SkipWhite(s, i) == IF i <= Len(s) /\ s[i] = " " THEN SkipWhite(s, i + 1) ELSE i

RECURSIVE DigitsEnd(_, _)
DigitsEnd(s, i) == IF i <= Len(s) /\ IsDigit(s[i]) THEN DigitsEnd(s, i + 1) ELSE i

\* the value of the digits s[i..j-1]
RECURSIVE DigitsValue(_, _, _)
DigitsValue(s, i, j) ==
    IF j <= i THEN 0 ELSE DigitsValue(s, i, j - 1) * 10 + DigitVal(s[j - 1])

\* the fraction digits s[i..j-1] in thousandths (digits past the third are below the
\* resolution of the model)
FractionValue(s, i, j) ==
    (IF i < j THEN DigitVal(s[i]) * 100 ELSE 0)
    + (IF i + 1 < j THEN DigitVal(s[i + 1]) * 10 ELSE 0)
    + (IF i + 2 < j THEN DigitVal(s[i + 2]) ELSE 0)

\* parseFloat of a string: leading blanks, a sign, digits, a point, digits; what
\* follows the longest such prefix is ignored, and no digit at all gives NaN.
\* (Exponents and "Infinity" are outside the strings the model feeds it.)
ParseFloatString(s) ==
    LET a == SkipWhite(s, 1)
        signed == a <= Len(s) /\ s[a] \in {"-", "+"}
        neg == a <= Len(s) /\ s[a] = "-"
        b == IF signed THEN a + 1 ELSE a
        c == DigitsEnd(s, b)
        dot == c <= Len(s) /\ s[c] = "."
        d == IF dot THEN DigitsEnd(s, c + 1) ELSE c
        nDigits == (c - b) + (IF dot THEN d - (c + 1) ELSE 0)
        mag == DigitsValue(s, b, c) * Scale + (IF dot THEN FractionValue(s, c + 1, d) ELSE 0)
    IN  IF nDigits = 0 THEN NaN ELSE Num(IF neg THEN 0 - mag ELSE mag)

\* parseFloat(value): the argument is converted to a string first; a number prints
\* and parses back to itself, and the text of a Date, a boolean, undefined or null
\* starts with a letter.
ParseFloat(v) ==
    CASE v.k = "string" -> ParseFloatString(v.s)
      [] v.k = "number" -> v
      [] OTHER -> NaN

----------------------------------------------------------------------------
(* new Date(value) *)

AllDigits(s, i, j) == \A x \in i..j : IsDigit(s[x])

\* Date.parse of YYYY-MM-DD (the ISO date form); the day is kept away from the
\* month's ends, where the zone or the engine would decide the month.  Any other
\* text the model feeds it holds no date and gives an invalid Date.
DateParseString(s) ==
    IF /\ Len(s) = 10
       /\ AllDigits(s, 1, 4) /\ s[5] = "-" /\ AllDigits(s, 6, 7)
       /\ s[8] = "-" /\ AllDigits(s, 9, 10)
       /\ DigitsValue(s, 6, 8) \in 1..12
       /\ DigitsValue(s, 9, 11) \in 1..28
    THEN DateOf(MonthIndex(DigitsValue(s, 1, 5), DigitsValue(s, 6, 8) - 1))
    ELSE InvalidDate

\* new Date(value): a Date is copied, a number is milliseconds from 1970-01-01 (the
\* numbers of the model are all within a month of it), a string is parsed.
NewDate(v) ==
    CASE v.k = "Date" -> v
      [] v.k = "InvalidDate" -> v
      [] v.k = "string" -> DateParseString(v.s)
      [] v.k = "number" -> IF v.n >= 0 THEN DateOf(MonthIndex(1970, 0)) ELSE DateOf(MonthIndex(1969, 11))
      [] v.k = "boolean" -> DateOf(MonthIndex(1970, 0))
      [] v.k = "null" -> DateOf(MonthIndex(1970, 0))
      [] OTHER -> InvalidDate

----------------------------------------------------------------------------
(* SheetConfig.default *)

Yes == <<"Y", "e", "s">>
No == <<"N", "o">>

\* min: 0.01, in thousandths
MinAmount == 10

columnMapping ==
    << [col |-> "Name", field |-> "name"],
       [col |-> "Amount", field |-> "amount"],
       [col |-> "Date", field |-> "date"],
       [col |-> "Verified", field |-> "verified"] >>

\* a rule without a type, a min or allowedValues has type "none", hasMin FALSE,
\* hasAllowed FALSE
validationRules ==
    << [col |-> "Name", required |-> TRUE, type |-> "string", hasMin |-> FALSE, min |-> 0,
        currentMonth |-> FALSE, hasAllowed |-> FALSE, allowedValues |-> <<>>],
       [col |-> "Amount", required |-> TRUE, type |-> "number", hasMin |-> TRUE, min |-> MinAmount,
        currentMonth |-> FALSE, hasAllowed |-> FALSE, allowedValues |-> <<>>],
       [col |-> "Date", required |-> TRUE, type |-> "date", hasMin |-> FALSE, min |-> 0,
        currentMonth |-> TRUE, hasAllowed |-> FALSE, allowedValues |-> <<>>],
       [col |-> "Verified", required |-> FALSE, type |-> "none", hasMin |-> FALSE, min |-> 0,
        currentMonth |-> FALSE, hasAllowed |-> TRUE, allowedValues |-> <<Yes, No>>] >>

\* config.validationRules[excelColumn]
RuleOf(col) == validationRules[CHOOSE i \in 1..Len(validationRules) : validationRules[i].col = col]

----------------------------------------------------------------------------
(* validateRow *)

\* rowData[col]: a key the row does not have reads undefined
Get(rowData, col) == IF col \in DOMAIN rowData THEN rowData[col] ELSE Undefined

\* the template literals `Row ${rowNumber}: "${col}" ...`, part by part
RequiredError(rowNumber, col) == <<"Row ", rowNumber, ": \"", col, "\" is required.">>
NumericError(rowNumber, col) == <<"Row ", rowNumber, ": \"", col, "\" must be numeric.">>
MinError(rowNumber, col, min) == <<"Row ", rowNumber, ": \"", col, "\" must be greater than ", min, ".">>
ValidDateError(rowNumber, col) == <<"Row ", rowNumber, ": \"", col, "\" must be a valid date.">>
CurrentMonthError(rowNumber, col) == <<"Row ", rowNumber, ": \"", col, "\" must be within the current month.">>
StringError(rowNumber, col) == <<"Row ", rowNumber, ": \"", col, "\" must be a string.">>

RECURSIVE Join(_, _)
Join(items, sep) ==
    IF Len(items) = 0 THEN <<>>
    ELSE IF Len(items) = 1 THEN <<items[1]>>
    ELSE <<items[1], sep>> \o Join(Tail(items), sep)

AllowedError(rowNumber, col, allowed) ==
    <<"Row ", rowNumber, ": \"", col, "\" must be one of ", Join(allowed, ", "), ".">>

\* the number check with the comparison num <= rule.min
CheckNumberAtMost(rule, value, rowNumber) ==
    LET num == ParseFloat(value)
    IN  IF num.k = "NaN" THEN <<NumericError(rowNumber, rule.col)>>
        ELSE IF rule.hasMin /\ num.n <= rule.min THEN <<MinError(rowNumber, rule.col, rule.min)>>
        ELSE <<>>

\* rule.type === 'number'
CheckNumber(rule, value, rowNumber) ==
    LET num == ParseFloat(value)
    IN  IF num.k = "NaN" THEN <<NumericError(rowNumber, rule.col)>>
        ELSE IF rule.hasMin /\ num.n < rule.min THEN <<MinError(rowNumber, rule.col, rule.min)>>
        ELSE <<>>

\* the date check without the comparison of the months
CheckDateAnyMonth(rule, value, rowNumber) ==
    LET date == NewDate(value)
    IN  IF date.k = "InvalidDate" THEN <<ValidDateError(rowNumber, rule.col)>> ELSE <<>>

\* rule.type === 'date'; getMonth and getFullYear of both instants agree exactly
\* when the month indexes do
CheckDate(rule, value, rowNumber) ==
    LET date == NewDate(value)
    IN  IF date.k = "InvalidDate" THEN <<ValidDateError(rowNumber, rule.col)>>
        ELSE IF rule.currentMonth /\ date.n # now THEN <<CurrentMonthError(rowNumber, rule.col)>>
        ELSE <<>>

\* rule.type === 'string'
CheckString(rule, value, rowNumber) ==
    IF value.k # "string" THEN <<StringError(rowNumber, rule.col)>> ELSE <<>>

\* rule.allowedValues && !rule.allowedValues.includes(value)
CheckAllowed(rule, value, rowNumber) ==
    IF rule.hasAllowed
       /\ ~(value.k = "string" /\ \E i \in 1..Len(rule.allowedValues) : rule.allowedValues[i] = value.s)
    THEN <<AllowedError(rowNumber, rule.col, rule.allowedValues)>>
    ELSE <<>>

\* the body of the loop without the continue after the 'is required' error
CheckColumnNoContinue(rule, value, rowNumber) ==
    (IF rule.required /\ IsEmptyValue(value) THEN <<RequiredError(rowNumber, rule.col)>> ELSE <<>>)
    \o (CASE rule.type = "number" -> CheckNumber(rule, value, rowNumber)
           [] rule.type = "date" -> CheckDate(rule, value, rowNumber)
           [] rule.type = "string" -> CheckString(rule, value, rowNumber)
           [] OTHER -> <<>>)
    \o CheckAllowed(rule, value, rowNumber)

\* the body of the loop over the rules, for one column
CheckColumn(rule, value, rowNumber) ==
    IF rule.required /\ IsEmptyValue(value) THEN <<RequiredError(rowNumber, rule.col)>>
    ELSE IF IsEmptyValue(value) THEN <<>>
    ELSE (CASE rule.type = "number" -> CheckNumber(rule, value, rowNumber)
            [] rule.type = "date" -> CheckDate(rule, value, rowNumber)
            [] rule.type = "string" -> CheckString(rule, value, rowNumber)
            [] OTHER -> <<>>)
         \o CheckAllowed(rule, value, rowNumber)

RECURSIVE ValidateFrom(_, _, _, _, _)
ValidateFrom(rowData, rules, i, rowNumber, errors) ==
    IF i > Len(rules) THEN errors
    ELSE ValidateFrom(rowData, rules, i + 1, rowNumber,
                      errors \o CheckColumn(rules[i], Get(rowData, rules[i].col), rowNumber))

\* a validator that returns at the first error
validateRowFirstError(rowData, rules, rowNumber) ==
    LET errors == ValidateFrom(rowData, rules, 1, rowNumber, <<>>)
    IN  IF errors = <<>> THEN <<>> ELSE <<Head(errors)>>

validateRow(rowData, rules, rowNumber) == ValidateFrom(rowData, rules, 1, rowNumber, <<>>)

----------------------------------------------------------------------------
(* the column mapping of one row *)

\* one entry of columnMapping: copy, then convert a truthy date or number
MapValue(rule, raw) ==
    LET copied == raw
        dated == IF rule.type = "date" /\ Truthy(raw) THEN NewDate(raw) ELSE copied
    IN  IF rule.type = "number" /\ Truthy(raw) THEN ParseFloat(raw) ELSE dated

RECURSIVE MapFrom(_, _, _)
MapFrom(rowObject, i, mappedRow) ==
    IF i > Len(columnMapping) THEN mappedRow
    ELSE MapFrom(rowObject, i + 1,
                 (columnMapping[i].field :> MapValue(RuleOf(columnMapping[i].col),
                                                     Get(rowObject, columnMapping[i].col)))
                 @@ mappedRow)

mapRow(rowObject) == MapFrom(rowObject, 1, <<>>)

----------------------------------------------------------------------------
(* POST /api/upload *)

\* worksheet.name of the i-th sheet of a workbook
SheetName(i) == <<"Sheet", i>>

\* Object.values(headers).includes(expectedColumn)
HeaderIncludes(headers, expectedColumn) == \E c \in 1..Len(headers) : headers[c] = expectedColumn

RECURSIVE MissingFrom(_, _, _)
MissingFrom(headers, i, missingColumns) ==
    IF i > Len(columnMapping) THEN missingColumns
    ELSE MissingFrom(headers, i + 1,
                     IF HeaderIncludes(headers, columnMapping[i].col) THEN missingColumns
                     ELSE Append(missingColumns, columnMapping[i].col))

\* a check that names only the first column the header row lacks
MissingColumnsFirstOnly(headers) ==
    LET missingColumns == MissingFrom(headers, 1, <<>>)
    IN  IF missingColumns = <<>> THEN <<>> ELSE <<Head(missingColumns)>>

MissingColumns(headers) == MissingFrom(headers, 1, <<>>)

MissingColumnsError(missingColumns) ==
    [row |-> 1, error |-> <<"Missing required columns: ", Join(missingColumns, ", ")>>]

\* row.eachCell: the cells that hold a value, in column order; a later cell under
\* the same header overwrites an earlier one
RECURSIVE EachCell(_, _, _, _)
EachCell(headers, cells, c, rowObject) ==
    IF c > Len(cells) THEN rowObject
    ELSE EachCell(headers, cells, c + 1,
                  IF cells[c] = Undefined THEN rowObject
                  ELSE (headers[c] :> cells[c]) @@ rowObject)

RowObject(headers, cells) == EachCell(headers, cells, 1, <<>>)

\* row.hasValues: eachRow passes over the rows that hold no value
HasValues(cells) == \E c \in 1..Len(cells) : cells[c] # Undefined

RECURSIVE Descriptors(_, _)
Descriptors(rowNumber, rowErrors) ==
    IF rowErrors = <<>> THEN <<>>
    ELSE <<[row |-> rowNumber, error |-> Head(rowErrors)]>> \o Descriptors(rowNumber, Tail(rowErrors))

\* a callback that maps only the rows without errors
RowCallbackSkipsInvalid(acc, sheetName, headers, cells, rowNumber) ==
    IF rowNumber = 1 THEN acc
    ELSE LET rowObject == RowObject(headers, cells)
             rowErrors == validateRow(rowObject, validationRules, rowNumber)
             mappedRow == mapRow(rowObject)
         IN  IF rowErrors # <<>>
             THEN [acc EXCEPT !.validationErrors[sheetName] = @ \o Descriptors(rowNumber, rowErrors)]
             ELSE [acc EXCEPT
                     !.sheetData[sheetName] = Append(@, mappedRow),
                     !.visited[sheetName] = Append(@, [rowNumber |-> rowNumber, rowObject |-> rowObject,
                                                       rowErrors |-> rowErrors, mappedRow |-> mappedRow,
                                                       index |-> Len(acc.sheetData[sheetName])])]

\* the callback of worksheet.eachRow for one row; acc holds the handler's
\* sheetData and validationErrors and the history of the calls
RowCallback(acc, sheetName, headers, cells, rowNumber) ==
    IF rowNumber = 1 THEN acc
    ELSE LET rowObject == RowObject(headers, cells)
             rowErrors == validateRow(rowObject, validationRules, rowNumber)
             mappedRow == mapRow(rowObject)
         IN  [acc EXCEPT
                !.validationErrors[sheetName] = @ \o Descriptors(rowNumber, rowErrors),
                !.sheetData[sheetName] = Append(@, mappedRow),
                !.visited[sheetName] = Append(@, [rowNumber |-> rowNumber, rowObject |-> rowObject,
                                                  rowErrors |-> rowErrors, mappedRow |-> mappedRow,
                                                  index |-> Len(acc.sheetData[sheetName])])]

\* A worksheet is [headers, rowCount, rows]: the texts of row 1 by column, and the
\* cells of rows 2..rowCount by column (Undefined where a cell holds nothing).
RowCells(worksheet, rowNumber) == IF rowNumber = 1 THEN <<>> ELSE worksheet.rows[rowNumber]

RowHasValues(worksheet, rowNumber) ==
    IF rowNumber = 1 THEN worksheet.headers # <<>> ELSE HasValues(worksheet.rows[rowNumber])

\* worksheet.eachRow: rows 1..rowCount that hold a value, with their own numbers
RECURSIVE EachRow(_, _, _, _)
EachRow(acc, sheetName, worksheet, rowNumber) ==
    IF rowNumber > worksheet.rowCount THEN acc
    ELSE EachRow(IF RowHasValues(worksheet, rowNumber)
                 THEN RowCallback(acc, sheetName, worksheet.headers, RowCells(worksheet, rowNumber), rowNumber)
                 ELSE acc,
                 sheetName, worksheet, rowNumber + 1)

\* the handler without the delete of the empty list
DeleteNever(errors, sheetName) == errors

\* delete validationErrors[sheetName] when the list is empty
DeleteIfEmpty(errors, sheetName) ==
    IF errors[sheetName] = <<>>
    THEN [k \in DOMAIN errors \ {sheetName} |-> errors[k]]
    ELSE errors

\* the callback of workbook.eachSheet for one worksheet
SheetCallback(acc, worksheet, sheetName) ==
    LET named == [acc EXCEPT !.sheetNames = Append(@, sheetName)]
        headers == worksheet.headers
        missingColumns == MissingColumns(headers)
    IN  IF Len(missingColumns) > 0
        THEN [named EXCEPT !.validationErrors = (sheetName :> <<MissingColumnsError(missingColumns)>>) @@ @]
        ELSE LET opened == [named EXCEPT !.sheetData = (sheetName :> <<>>) @@ @,
                                         !.validationErrors = (sheetName :> <<>>) @@ @,
                                         !.visited = (sheetName :> <<>>) @@ @]
                 done == EachRow(opened, sheetName, worksheet, 1)
             IN  [done EXCEPT !.validationErrors = DeleteIfEmpty(@, sheetName)]



----------------------------------------------------------------------------
(* The workbooks of an upload *)

Bob == <<"B", "o", "b">>
Maybe == <<"M", "a", "y", "b", "e">>

\* the 15th of a month as YYYY-MM-DD
DigitChar(d) == DigitChars[(d % 10) + 1]

IsoDay(year, month) ==
    << DigitChar(year \div 1000), DigitChar(year \div 100), DigitChar(year \div 10), DigitChar(year), "-",
       DigitChar(month \div 10), DigitChar(month), "-", "1", "5" >>

\* the months the server clock may show: January and February 2024
NowMonths == {MonthIndex(2024, 0), MonthIndex(2024, 1)}

NameCells == {Undefined, Str(<<>>), Str(Bob), Str(<<" ">>), Num(5 * Scale)}

AmountCells ==
    {Undefined, Str(<<>>), Num(5 * Scale), Num(MinAmount), Num(MinAmount - 1), Num(0), Num(0 - Scale),
     Str(<<"5">>), Str(<<"0", ".", "0", "1">>), Str(<<"0", ".", "0", "0", "9">>), Str(<<"0">>),
     Str(<<"-", "1">>), Str(<<" ", "7">>), Str(<<".", "5">>), Str(<<"1", "2", "a", "b">>),
     Str(<<"a", "b", "c">>), Str(<<"-">>), Bool(TRUE)}

DateCells ==
    {Undefined, Str(<<>>), DateOf(MonthIndex(2024, 0)), DateOf(MonthIndex(2024, 1)),
     DateOf(MonthIndex(2023, 0)), DateOf(MonthIndex(2025, 1)), InvalidDate,
     Str(IsoDay(2024, 1)), Str(IsoDay(2024, 2)), Str(IsoDay(2023, 1)), Str(IsoDay(2024, 13)),
     Str(<<"a", "b", "c">>), Num(5 * Scale), Num(0)}

VerifiedCells ==
    {Undefined, Str(<<>>), Str(Yes), Str(No), Str(Maybe), Str(<<"y", "e", "s">>), Num(Scale), Bool(TRUE)}

FullHeaders == <<"Name", "Amount", "Date", "Verified">>

\* the cells of a row under the given headers, from the row's values by column name
Layout(headers, content) ==
    [c \in 1..Len(headers) |-> IF headers[c] \in DOMAIN content THEN content[headers[c]] ELSE Undefined]

Content(name, amount, date, verified) ==
    [Name |-> name, Amount |-> amount, Date |-> date, Verified |-> verified]

BlankContent == Content(Undefined, Undefined, Undefined, Undefined)

\* every row over the cell values above that holds a value
AllContents ==
    {Content(n, a, d, v) : n \in NameCells, a \in AmountCells, d \in DateCells, v \in VerifiedCells}
    \ {BlankContent}

\* full headers out of order beside a column the mapping does not name, headers
\* without the optional column, and headers that lack two of the mapped columns
HeaderRows ==
    { <<"Verified", "Notes", "Date", "Amount", "Name">>,
      <<"Name", "Amount", "Date">>,
      <<"name", "Verified", "Amount">> }

\* no row, a row that is clean in January 2024, a row whose amount is below the
\* minimum
SmallContents ==
    { BlankContent,
      Content(Str(Bob), Num(5 * Scale), DateOf(MonthIndex(2024, 0)), Str(Yes)),
      Content(Str(Bob), Num(0 - Scale), DateOf(MonthIndex(2024, 0)), Str(Yes)) }

SmallWorksheets ==
    { [headers |-> h, rowCount |-> MaxRowNumber, rows |-> [r \in 2..MaxRowNumber |-> Layout(h, contents[r])]] :
      h \in HeaderRows, contents \in [2..MaxRowNumber -> SmallContents] }

\* wide regime: the full headers and one row that holds values, over every
\* combination of cell values
WideWorksheets ==
    { [headers |-> FullHeaders, rowCount |-> MaxRowNumber,
       rows |-> [r \in 2..MaxRowNumber |-> Layout(FullHeaders, IF r = n THEN content ELSE BlankContent)]] :
      n \in 2..MaxRowNumber, content \in AllContents }

\* the worksheets a workbook may hold, and how many of them
Worksheets == IF wide THEN WideWorksheets ELSE SmallWorksheets

SheetLimit == IF wide THEN 1 ELSE MaxSheets

----------------------------------------------------------------------------
(* The JSON of a response, as the client reads it and posts it back *)

\* JSON.stringify of one value: NaN and an invalid Date become null, a Date its ISO
\* text (the model keeps the date part, mid-month)
ToJson(v) ==
    CASE v.k = "NaN" -> Null
      [] v.k = "InvalidDate" -> Null
      [] v.k = "Date" -> Str(IsoDay(v.n \div 12, (v.n % 12) + 1))
      [] OTHER -> v

\* an object's keys whose value is undefined are left out
JsonRow(mappedRow) ==
    [f \in {g \in DOMAIN mappedRow : mappedRow[g] # Undefined} |-> ToJson(mappedRow[f])]

JsonRows(rows) == [i \in 1..Len(rows) |-> JsonRow(rows[i])]

----------------------------------------------------------------------------
(* models/Record.js and Record.insertMany *)

\* name: { type: String, required: true }
NameValid(v) == ~IsEmptyValue(v)

\* amount: { type: Number, required: true }; text is cast with Number(), which
\* takes the whole text and not a prefix of it
AmountValid(v) ==
    \/ v.k = "number"
    \/ v.k = "boolean"
    \/ /\ v.k = "string" /\ v.s # <<>>
       /\ ParseFloatString(v.s).k = "number"
       /\ \A i \in 1..Len(v.s) : IsDigit(v.s[i]) \/ v.s[i] \in {".", "-", "+"}

\* date: { type: Date, required: true }
DateValid(v) ==
    \/ v.k = "Date"
    \/ v.k = "number"
    \/ v.k = "string" /\ DateParseString(v.s).k = "Date"

\* verified: { type: String, enum: ['Yes', 'No'], default: 'No' }
VerifiedValid(v) == v.k = "undefined" \/ (v.k = "string" /\ v.s \in {Yes, No})

RecordValid(doc) ==
    /\ NameValid(Get(doc, "name"))
    /\ AmountValid(Get(doc, "amount"))
    /\ DateValid(Get(doc, "date"))
    /\ VerifiedValid(Get(doc, "verified"))

\* insertMany resolves with the inserted documents or rejects; it rejects when a
\* document fails the schema, and may reject when the database does
InsertOutcomes(docs) ==
    IF \A i \in 1..Len(docs) : RecordValid(docs[i]) THEN {TRUE, FALSE} ELSE {FALSE}

----------------------------------------------------------------------------
(* POST /api/import *)

\* The loop reads each key of data, and the list under the same key of errors,
\* once; the model keeps the shape of the body, [hasData, key, order, hasErrors,
\* source], and draws a sheet's value and error list when the loop reaches it:
\* a turn is [sheet, isNull, rows, hasErrorList, errorList, validRows].
EmptyBody == [hasData |-> FALSE, key |-> "none", order |-> <<>>, hasErrors |-> FALSE, source |-> "none"]

NoTurn ==
    [sheet |-> <<>>, isNull |-> FALSE, rows |-> <<>>, hasErrorList |-> FALSE, errorList |-> <<>>,
     validRows |-> <<>>]

\* new Set((errors[sheet] || []).map((err) => err.row)), with errors = req.body.errors || {}
ErrorRows(hasErrors, hasErrorList, errorList) ==
    IF hasErrors /\ hasErrorList THEN {errorList[i].row : i \in 1..Len(errorList)} ELSE {}

\* the predicate with the row number taken as index + 1
KeepRowOffByOne(row, index, errorRows) ==
    LET rowNumber == index + 1
    IN  ~(rowNumber \in errorRows) /\ Truthy(Get(row, "name"))

\* the predicate of the filter, for the row at the 0-based index
KeepRow(row, index, errorRows) ==
    LET rowNumber == index + 2
    IN  ~(rowNumber \in errorRows) /\ Truthy(Get(row, "name"))

RECURSIVE FilterFrom(_, _, _, _)
FilterFrom(rows, errorRows, i, validRows) ==
    IF i > Len(rows) THEN validRows
    ELSE FilterFrom(rows, errorRows, i + 1,
                    IF KeepRow(rows[i], i - 1, errorRows) THEN Append(validRows, rows[i]) ELSE validRows)

ValidRows(rows, errorRows) == FilterFrom(rows, errorRows, 1, <<>>)

NoResponse == [status |-> 0, kind |-> "none", count |-> 0]

\* what a client that posts the upload's answer back sends for a sheet
ForwardedTurn(sheet) ==
    [sheet |-> sheet, isNull |-> FALSE, rows |-> JsonRows(sheetData[sheet]),
     hasErrorList |-> body.hasErrors /\ sheet \in DOMAIN validationErrors,
     errorList |-> IF body.hasErrors /\ sheet \in DOMAIN validationErrors THEN validationErrors[sheet] ELSE <<>>]

Amy == <<"A", "m", "y">>

\* the rows of the bodies posted to the import directly: two records, a row with
\* an empty name, a row with no name, a row whose amount is null
BobRow == [name |-> Str(Bob), amount |-> Num(5 * Scale), date |-> Str(IsoDay(2024, 1)), verified |-> Str(Yes)]
AmyRow == [name |-> Str(Amy), amount |-> Num(7 * Scale), date |-> Str(IsoDay(2024, 1)), verified |-> Str(No)]
EmptyNameRow == [name |-> Str(<<>>), amount |-> Num(5 * Scale), date |-> Str(IsoDay(2024, 1)), verified |-> Str(Yes)]
NoNameRow == [amount |-> Num(5 * Scale), date |-> Str(IsoDay(2024, 1)), verified |-> Str(No)]
NullAmountRow == [name |-> Str(Bob), amount |-> Null, date |-> Str(IsoDay(2024, 1))]

ImportRows == {BobRow, AmyRow, EmptyNameRow, NoNameRow, NullAmountRow}

\* the lists of rows of a body of one sheet
LongRowLists == UNION { [1..n -> ImportRows] : n \in 0..MaxImportRows }

\* the lists of rows of a body of several sheets
ShortRowLists == {<<>>, <<BobRow>>, <<AmyRow, BobRow>>, <<NullAmountRow>>, <<EmptyNameRow, AmyRow>>}

RowLists == IF Len(body.order) <= 1 THEN LongRowLists ELSE ShortRowLists

\* the error lists of a posted body: one descriptor for each row number of a set,
\* in ascending order
RECURSIVE DescriptorsOf(_)
DescriptorsOf(rowNumbers) ==
    IF rowNumbers = {} THEN <<>>
    ELSE LET least == CHOOSE r \in rowNumbers : \A q \in rowNumbers : r <= q
         IN  <<[row |-> least, error |-> <<"Row ", least, ": invalid.">>]>> \o DescriptorsOf(rowNumbers \ {least})

ErrorLists ==
    IF Len(body.order) <= 1
    THEN {DescriptorsOf(rowNumbers) : rowNumbers \in SUBSET (2..(MaxImportRows + 1))}
    ELSE {DescriptorsOf({}), DescriptorsOf({2})}

\* what a client of its own may send for a sheet: null or a list of rows, with
\* or without a list of errors
PostedTurns(sheet) ==
    { [sheet |-> sheet, isNull |-> TRUE, rows |-> <<>>, hasErrorList |-> FALSE, errorList |-> <<>>] }
    \cup { [sheet |-> sheet, isNull |-> FALSE, rows |-> rows, hasErrorList |-> FALSE, errorList |-> <<>>] :
           rows \in RowLists }
    \cup { [sheet |-> sheet, isNull |-> FALSE, rows |-> rows, hasErrorList |-> TRUE, errorList |-> list] :
           rows \in {r \in RowLists : body.hasErrors}, list \in ErrorLists }

Turns(sheet) == IF body.source = "forwarded" THEN {ForwardedTurn(sheet)} ELSE PostedTurns(sheet)

Names(n) == [i \in 1..n |-> SheetName(i)]

----------------------------------------------------------------------------
(* The handlers *)

Init ==
    /\ now = MonthIndex(2024, 0)
    /\ wide = FALSE
    /\ pc = "idle"
    /\ headerRows = <<>>
    /\ filled = <<>>
    /\ sheetNames = <<>>
    /\ sheetData = <<>>
    /\ validationErrors = <<>>
    /\ visited = <<>>
    /\ body = EmptyBody
    /\ cursor = 0
    /\ current = NoTurn
    /\ importedCount = 0
    /\ db = <<>>
    /\ inserts = <<>>
    /\ res = NoResponse

importVars == <<body, cursor, current, importedCount, db, inserts>>
uploadVars == <<headerRows, filled, sheetNames, sheetData, validationErrors, visited>>

\* upload with no file in the request: 400
UploadNoFile ==
    /\ pc = "idle"
    /\ pc' = "rejected"
    /\ res' = [status |-> 400, kind |-> "error", count |-> 0]
    /\ UNCHANGED <<now, wide, uploadVars, importVars>>

\* upload of a file the workbook reader rejects: the catch answers 500
UploadUnreadable ==
    /\ pc = "idle"
    /\ pc' = "rejected"
    /\ res' = [status |-> 500, kind |-> "error", count |-> 0]
    /\ UNCHANGED <<now, wide, uploadVars, importVars>>

\* upload of a workbook: the file is loaded and the three results start empty
UploadLoad ==
    /\ pc = "idle"
    /\ pc' = "uploading"
    /\ UNCHANGED <<now, wide, uploadVars, importVars, res>>

\* workbook.eachSheet calls back for the next worksheet
UploadSheet ==
    /\ pc = "uploading"
    /\ Len(sheetNames) < SheetLimit
    /\ \E worksheet \in Worksheets :
         LET acc == [sheetNames |-> sheetNames, sheetData |-> sheetData,
                     validationErrors |-> validationErrors, visited |-> visited]
             out == SheetCallback(acc, worksheet, SheetName(Len(sheetNames) + 1))
         IN  /\ headerRows' = Append(headerRows, worksheet.headers)
             /\ filled' = Append(filled, {r \in 2..worksheet.rowCount : HasValues(worksheet.rows[r])})
             /\ sheetNames' = out.sheetNames
             /\ sheetData' = out.sheetData
             /\ validationErrors' = out.validationErrors
             /\ visited' = out.visited
    /\ UNCHANGED <<now, wide, pc, importVars, res>>

\* after the last sheet: res.json({sheetNames, sheetData, validationErrors})
UploadRespond ==
    /\ pc = "uploading"
    /\ Len(sheetNames) >= 1
    /\ pc' = "uploaded"
    /\ res' = [status |-> 200, kind |-> "upload", count |-> 0]
    /\ UNCHANGED <<now, wide, uploadVars, importVars>>

\* the import handler up to its loop
StartImport(b) ==
    /\ body' = b
    /\ IF b.hasData
       THEN /\ pc' = "importing"
            /\ cursor' = 1
            /\ importedCount' = 0
            /\ res' = NoResponse
       ELSE /\ pc' = "imported"
            /\ res' = [status |-> 400, kind |-> "error", count |-> 0]
            /\ UNCHANGED <<cursor, importedCount>>
    /\ UNCHANGED <<now, wide, uploadVars, current, db, inserts>>

\* the client posts what the upload answered: data with the errors, or the same
\* rows under sheetData without them
PostImport ==
    /\ pc = "uploaded"
    /\ \E withErrors \in BOOLEAN :
         StartImport([hasData |-> TRUE, key |-> IF withErrors THEN "data" ELSE "sheetData",
                      order |-> SelectSeq(sheetNames, LAMBDA s : s \in DOMAIN sheetData),
                      hasErrors |-> withErrors, source |-> "forwarded"])

\* a client posts a body of its own: no data, or the sheets under data with or
\* without errors, or under sheetData
PostImportDirect ==
    /\ pc = "idle"
    /\ \/ StartImport([EmptyBody EXCEPT !.source = "posted"])
       \/ \E n \in 0..MaxImportSheets, withErrors \in BOOLEAN :
            StartImport([hasData |-> TRUE, key |-> "data", order |-> Names(n),
                         hasErrors |-> withErrors, source |-> "posted"])
       \/ \E n \in 0..MaxImportSheets :
            StartImport([hasData |-> TRUE, key |-> "sheetData", order |-> Names(n),
                         hasErrors |-> FALSE, source |-> "posted"])

\* a turn of the loop over the sheets of data, as far as the filter
ImportFilter ==
    /\ pc = "importing"
    /\ cursor <= Len(body.order)
    /\ \E turn \in Turns(body.order[cursor]) :
         LET errorRows == ErrorRows(body.hasErrors, turn.hasErrorList, turn.errorList)
             validRows == IF turn.isNull THEN <<>> ELSE ValidRows(turn.rows, errorRows)
         IN  current' = [sheet |-> turn.sheet, isNull |-> turn.isNull, rows |-> turn.rows,
                         hasErrorList |-> turn.hasErrorList, errorList |-> turn.errorList,
                         validRows |-> validRows]
    /\ pc' = "filtered"
    /\ UNCHANGED <<now, wide, uploadVars, body, cursor, importedCount, db, inserts, res>>

\* the sheet is null or no row of it is valid: on to the next sheet
ImportContinue ==
    /\ pc = "filtered"
    /\ current.isNull \/ Len(current.validRows) = 0
    /\ pc' = "importing"
    /\ cursor' = cursor + 1
    /\ current' = NoTurn
    /\ UNCHANGED <<now, wide, uploadVars, body, importedCount, db, inserts, res>>

\* Record.insertMany(validRows) resolves: the count grows by result.length
ImportInsert ==
    /\ pc = "filtered"
    /\ ~current.isNull /\ Len(current.validRows) > 0
    /\ TRUE \in InsertOutcomes(current.validRows)
    /\ db' = db \o current.validRows
    /\ inserts' = Append(inserts, [sheet |-> current.sheet, docs |-> current.validRows, ok |-> TRUE])
    /\ importedCount' = importedCount + Len(current.validRows)
    /\ pc' = "importing"
    /\ cursor' = cursor + 1
    /\ current' = NoTurn
    /\ UNCHANGED <<now, wide, uploadVars, body, res>>

\* a loop that catches the rejection and goes on to the next sheet
ImportInsertFailsGoesOn ==
    /\ pc = "filtered"
    /\ ~current.isNull /\ Len(current.validRows) > 0
    /\ FALSE \in InsertOutcomes(current.validRows)
    /\ inserts' = Append(inserts, [sheet |-> current.sheet, docs |-> current.validRows, ok |-> FALSE])
    /\ pc' = "importing"
    /\ cursor' = cursor + 1
    /\ current' = NoTurn
    /\ UNCHANGED <<now, wide, uploadVars, body, importedCount, db, res>>

\* Record.insertMany(validRows) rejects: the catch answers 500
ImportInsertFails ==
    /\ pc = "filtered"
    /\ ~current.isNull /\ Len(current.validRows) > 0
    /\ FALSE \in InsertOutcomes(current.validRows)
    /\ inserts' = Append(inserts, [sheet |-> current.sheet, docs |-> current.validRows, ok |-> FALSE])
    /\ pc' = "imported"
    /\ res' = [status |-> 500, kind |-> "error", count |-> 0]
    /\ current' = NoTurn
    /\ UNCHANGED <<now, wide, uploadVars, body, cursor, importedCount, db>>

\* after the loop: the message with the count
ImportRespond ==
    /\ pc = "importing"
    /\ cursor > Len(body.order)
    /\ pc' = "imported"
    /\ res' = [status |-> 200, kind |-> "message", count |-> importedCount]
    /\ UNCHANGED <<now, wide, uploadVars, importVars>>

NextUpload == UploadNoFile \/ UploadUnreadable \/ UploadLoad \/ UploadSheet \/ UploadRespond

NextLoop == ImportFilter \/ ImportContinue \/ ImportInsert \/ ImportInsertFails \/ ImportRespond

Next == NextUpload \/ PostImport \/ NextLoop

\* an upload of a small workbook, and the import of what it answered
Spec == Init /\ [][Next]_vars

\* the upload alone
SpecUpload == Init /\ [][NextUpload]_vars

InitWide ==
    /\ now \in NowMonths
    /\ wide = TRUE
    /\ pc = "idle"
    /\ headerRows = <<>>
    /\ filled = <<>>
    /\ sheetNames = <<>>
    /\ sheetData = <<>>
    /\ validationErrors = <<>>
    /\ visited = <<>>
    /\ body = EmptyBody
    /\ cursor = 0
    /\ current = NoTurn
    /\ importedCount = 0
    /\ db = <<>>
    /\ inserts = <<>>
    /\ res = NoResponse

\* the upload of one row over every combination of cell values
SpecRow == InitWide /\ [][NextUpload]_vars

NextImport == PostImportDirect \/ NextLoop

\* the import of a body the client made itself
SpecImport == Init /\ [][NextImport]_vars

----------------------------------------------------------------------------
(* The claims *)

\* the errors of a list that name the column (the fourth part of a message)
ErrorsFor(errors, col) == SelectSeq(errors, LAMBDA e : e[4] = col)

MappedColumns == <<"Name", "Amount", "Date", "Verified">>

\* the mapped columns a header row lacks, in the order of the mapping
LackedColumns(headers) == SelectSeq(MappedColumns, LAMBDA c : ~(\E j \in 1..Len(headers) : headers[j] = c))

\* the j-th smallest number of a set
NthOf(S, j) == CHOOSE i \in S : Cardinality({x \in S : x <= i}) = j

RECURSIVE Flatten(_)
Flatten(batches) == IF batches = <<>> THEN <<>> ELSE Head(batches) \o Flatten(Tail(batches))

\* every eachRow call of the upload, with its sheet
CallsOf(s) == {[sheet |-> s, call |-> visited[s][k]] : k \in 1..Len(visited[s])}

Calls == UNION {CallsOf(s) : s \in DOMAIN visited}

\* C1: error-row numbers and data-row positions stay aligned: the MappedRow at
\* 0-based index i of sheetData[sheet] was built from spreadsheet row i + 2, and
\* the import of the upload's answer leaves out exactly the rows that validation
\* flagged.
C1_RowsAligned ==
    /\ \A s \in DOMAIN sheetData : \A i \in 1..Len(sheetData[s]) :
         /\ visited[s][i].index = i - 1
         /\ visited[s][i].mappedRow = sheetData[s][i]
         /\ visited[s][i].rowNumber = (i - 1) + 2
    /\ (pc = "filtered" /\ body.source = "forwarded" /\ body.hasErrors) =>
         \A i \in 1..Len(current.rows) :
           ((i - 1) + 2 \in ErrorRows(body.hasErrors, current.hasErrorList, current.errorList))
             <=> (visited[current.sheet][i].rowErrors # <<>>)

\* C2: a sheet whose header row lacks a mapped column has exactly the one
\* descriptor {row: 1, 'Missing required columns: ' + the lacked names joined in
\* mapping order}, no sheetData entry and no row validated or mapped; its name is
\* still in sheetNames, and every other sheet is processed: it has a sheetData
\* entry with one row for each data row that holds a value.
C2_MissingColumns ==
    /\ Len(sheetNames) = Len(headerRows)
    /\ \A i \in 1..Len(headerRows) :
         LET s == SheetName(i)
             lacked == LackedColumns(headerRows[i])
         IN  /\ sheetNames[i] = s
             /\ IF lacked # <<>>
                THEN /\ s \in DOMAIN validationErrors
                     /\ validationErrors[s] =
                          <<[row |-> 1, error |-> <<"Missing required columns: ", Join(lacked, ", ")>>]>>
                     /\ s \notin DOMAIN sheetData
                     /\ s \notin DOMAIN visited
                ELSE /\ s \in DOMAIN sheetData
                     /\ Len(sheetData[s]) = Cardinality(filled[i])

\* a sheet that lacks two columns and holds data rows, followed by a sheet with
\* all the columns whose rows were mapped
C2_Witness ==
    /\ pc = "uploaded"
    /\ \E i, j \in 1..Len(headerRows) :
         /\ i < j
         /\ Len(LackedColumns(headerRows[i])) = 2
         /\ filled[i] # {}
         /\ LackedColumns(headerRows[j]) = <<>>
         /\ Len(sheetData[SheetName(j)]) >= 1

\* C6: row errors never stop the mapping: in a sheet with all the mapped columns,
\* every data row that eachRow visits gives exactly one MappedRow, in row order,
\* whether it has errors or not.
C6_EveryRowMapped ==
    \A i \in 1..Len(headerRows) :
      LET s == SheetName(i)
      IN  LackedColumns(headerRows[i]) = <<>> =>
            /\ s \in DOMAIN sheetData
            /\ Len(sheetData[s]) = Cardinality(filled[i])
            /\ Len(visited[s]) = Cardinality(filled[i])
            /\ \A k \in 1..Len(sheetData[s]) :
                 /\ visited[s][k].rowNumber = NthOf(filled[i], k)
                 /\ visited[s][k].rowNumber >= 2
                 /\ sheetData[s][k] = visited[s][k].mappedRow
                 /\ DOMAIN sheetData[s][k] = {"name", "amount", "date", "verified"}

\* a sheet with a row without errors and a row with errors, both in sheetData
C6_Witness ==
    /\ pc = "uploaded"
    /\ \E s \in DOMAIN sheetData :
         /\ Len(sheetData[s]) = 2
         /\ visited[s][1].rowErrors # <<>>
         /\ visited[s][2].rowErrors = <<>>
         /\ sheetData[s][1].amount = Num(0 - Scale)

\* C9: a sheet name is a key of validationErrors exactly when the sheet gave a
\* descriptor, for its header or for a row; no key holds an empty list, and a
\* sheet with all columns and no row error is no key of validationErrors and is a
\* key of sheetData.
C9_ErrorKeys ==
    /\ DOMAIN validationErrors \subseteq {SheetName(i) : i \in 1..Len(headerRows)}
    /\ \A i \in 1..Len(headerRows) :
         LET s == SheetName(i)
             headerError == LackedColumns(headerRows[i]) # <<>>
             rowError == s \in DOMAIN visited /\ \E k \in 1..Len(visited[s]) : visited[s][k].rowErrors # <<>>
         IN  /\ (s \in DOMAIN validationErrors) <=> (headerError \/ rowError)
             /\ s \in DOMAIN validationErrors => validationErrors[s] # <<>>
             /\ (~headerError /\ ~rowError) => s \in DOMAIN sheetData

\* a sheet whose rows are all clean beside a sheet with a row error
C9_Witness ==
    /\ pc = "uploaded"
    /\ \E s, u \in DOMAIN sheetData :
         /\ Len(sheetData[s]) >= 1
         /\ s \notin DOMAIN validationErrors
         /\ u \in DOMAIN validationErrors
         /\ validationErrors[u][1].row >= 2

\* C4: a required column whose value is absent, null or the empty string gets
\* the 'is required' error and no other error; a column that is not required gets
\* no error at all for such a value.
C4_Required ==
    \A c \in Calls : \A r \in 1..Len(validationRules) :
      LET col == validationRules[r].col
          value == IF col \in DOMAIN c.call.rowObject THEN c.call.rowObject[col] ELSE Undefined
      IN  (value.k \in {"undefined", "null"} \/ (value.k = "string" /\ value.s = <<>>)) =>
            ErrorsFor(c.call.rowErrors, col) =
              IF col \in {"Name", "Amount", "Date"}
              THEN << <<"Row ", c.call.rowNumber, ": \"", col, "\" is required.">> >>
              ELSE <<>>

\* a row whose Amount is the empty string and whose Verified is absent
C4_Witness ==
    \E c \in Calls :
      /\ "Amount" \in DOMAIN c.call.rowObject /\ c.call.rowObject["Amount"] = Str(<<>>)
      /\ "Verified" \notin DOMAIN c.call.rowObject
      /\ ErrorsFor(c.call.rowErrors, "Amount") = << <<"Row ", c.call.rowNumber, ": \"", "Amount", "\" is required.">> >>
      /\ pc = "uploaded"

\* C5: a non-empty Amount whose parse succeeds gets the 'must be greater than m'
\* error exactly when the parsed number is below m = 0.01, so m itself is
\* accepted; one whose parse fails gets 'must be numeric' and never the min error.
C5_Min ==
    \A c \in Calls :
      LET has == "Amount" \in DOMAIN c.call.rowObject
          value == IF has THEN c.call.rowObject["Amount"] ELSE Undefined
          errs == ErrorsFor(c.call.rowErrors, "Amount")
          minError == <<"Row ", c.call.rowNumber, ": \"", "Amount", "\" must be greater than ", MinAmount, ".">>
          numericError == <<"Row ", c.call.rowNumber, ": \"", "Amount", "\" must be numeric.">>
      IN  (has /\ value # Str(<<>>)) =>
            /\ ParseFloat(value).k = "number" /\ ParseFloat(value).n < MinAmount => errs = <<minError>>
            /\ ParseFloat(value).k = "number" /\ ParseFloat(value).n >= MinAmount => errs = <<>>
            /\ ParseFloat(value).k = "NaN" => errs = <<numericError>>
            /\ value \in {Num(MinAmount), Str(<<"0", ".", "0", "1">>), Str(<<"1", "2", "a", "b">>), Str(<<" ", "7">>)}
                 => errs = <<>>
            /\ value \in {Num(MinAmount - 1), Num(0), Str(<<"0", ".", "0", "0", "9">>), Str(<<"-", "1">>), Str(<<"0">>)}
                 => errs = <<minError>>
            /\ value \in {Str(<<"a", "b", "c">>), Str(<<"-">>), Bool(TRUE)} => errs = <<numericError>>

\* a row whose Amount is exactly the minimum and has no Amount error
C5_Witness ==
    \E c \in Calls :
      /\ "Amount" \in DOMAIN c.call.rowObject /\ c.call.rowObject["Amount"] = Num(MinAmount)
      /\ ErrorsFor(c.call.rowErrors, "Amount") = <<>>
      /\ pc = "uploaded"

\* a rule with a type and allowedValues, as a sheet configuration may hold
TypedChoiceRule ==
    [col |-> "Choice", required |-> FALSE, type |-> "string", hasMin |-> FALSE, min |-> 0,
     currentMonth |-> FALSE, hasAllowed |-> TRUE, allowedValues |-> <<Yes, No>>]

\* C8: validateRow checks every column and returns all the errors together, in
\* rule order (Name, Amount, Date, Verified): the errors of a column are what the
\* checks of that column give, whatever the other columns hold, and the
\* allowedValues check is made beside the type check.  The row ['Bob', -1, a date
\* of the current month, 'Maybe'] gives exactly the min error of Amount and then
\* the allowedValues error of Verified.
C8_AllColumns ==
    /\ CheckColumn(TypedChoiceRule, Num(Scale), 2)
         = << <<"Row ", 2, ": \"", "Choice", "\" must be a string.">>,
              <<"Row ", 2, ": \"", "Choice", "\" must be one of ", <<Yes, ", ", No>>, ".">> >>
    /\ \A c \in Calls :
         LET errs == c.call.rowErrors
             row == c.call.rowObject
             n == c.call.rowNumber
             Position(col) == CHOOSE r \in 1..Len(MappedColumns) : MappedColumns[r] = col
         IN  /\ \A r \in 1..Len(validationRules) :
                  ErrorsFor(errs, validationRules[r].col)
                    = CheckColumn(validationRules[r], Get(row, validationRules[r].col), n)
             /\ \A e \in 1..Len(errs) : errs[e][4] \in {"Name", "Amount", "Date", "Verified"}
             /\ \A e, f \in 1..Len(errs) : e < f => Position(errs[e][4]) <= Position(errs[f][4])
             /\ ( /\ Get(row, "Name") = Str(Bob) /\ Get(row, "Amount") = Num(0 - Scale)
                  /\ Get(row, "Date") = DateOf(now) /\ Get(row, "Verified") = Str(Maybe) )
                => errs = << <<"Row ", n, ": \"", "Amount", "\" must be greater than ", MinAmount, ".">>,
                             <<"Row ", n, ": \"", "Verified", "\" must be one of ", <<Yes, ", ", No>>, ".">> >>

\* the row ['Bob', -1, a date of the current month, 'Maybe'] with its two errors
C8_Witness ==
    \E c \in Calls :
      /\ Get(c.call.rowObject, "Name") = Str(Bob) /\ Get(c.call.rowObject, "Amount") = Num(0 - Scale)
      /\ Get(c.call.rowObject, "Date") = DateOf(now) /\ Get(c.call.rowObject, "Verified") = Str(Maybe)
      /\ Len(c.call.rowErrors) = 2
      /\ pc = "uploaded"

\* C10: validator and mapper agree on clean rows: a MappedRow whose row has no
\* error has a non-empty text as name, a number of at least 0.01 as amount, a
\* valid date of the current month as date, and a verified that is absent, empty,
\* 'Yes' or 'No'; so a NaN or an invalid date is only in a row with an error.
C10_CleanRows ==
    \A c \in Calls :
      LET mapped == sheetData[c.sheet][c.call.index + 1]
      IN  /\ c.call.rowErrors = <<>> =>
               /\ mapped.name.k = "string" /\ mapped.name.s # <<>>
               /\ mapped.amount.k = "number" /\ mapped.amount.n >= MinAmount
               /\ mapped.date.k = "Date" /\ mapped.date.n = now
               /\ mapped.verified \in {Undefined, Str(<<>>), Str(Yes), Str(No)}
          /\ (mapped.amount.k = "NaN" \/ mapped.date.k = "InvalidDate") => c.call.rowErrors # <<>>

\* a clean row whose amount and date were texts and whose verified is empty
C10_Witness ==
    \E c \in Calls :
      /\ c.call.rowErrors = <<>>
      /\ Get(c.call.rowObject, "Amount") = Str(<<"5">>)
      /\ Get(c.call.rowObject, "Date").k = "string"
      /\ Get(c.call.rowObject, "Verified") = Str(<<>>)
      /\ sheetData[c.sheet][c.call.index + 1].amount = Num(5 * Scale)
      /\ pc = "uploaded"

\* JavaScript's falsy values
Falsy == {Undefined, Null, Str(<<>>), Num(0), NaN, Bool(FALSE)}

\* the 1-based positions of the rows of a turn that the import keeps
KeptPositions(turn, hasErrors) ==
    { i \in 1..Len(turn.rows) :
        /\ ~(hasErrors /\ turn.hasErrorList /\ \E j \in 1..Len(turn.errorList) : turn.errorList[j].row = (i - 1) + 2)
        /\ "name" \in DOMAIN turn.rows[i]
        /\ turn.rows[i].name \notin Falsy }

KeptRows(turn, hasErrors) ==
    [j \in 1..Cardinality(KeptPositions(turn, hasErrors)) |-> turn.rows[NthOf(KeptPositions(turn, hasErrors), j)]]

\* C3: the row at 0-based index i of a sheet is passed to the bulk insert iff
\* i + 2 is the row number of no descriptor of errors[sheet] and its name is
\* truthy; the rows are passed in their order, and with errors absent no row is
\* left out for errors.
C3_ImportFilter ==
    [][ /\ pc' = "filtered" => current'.validRows = KeptRows(current', body'.hasErrors)
        /\ inserts' # inserts =>
             /\ pc = "filtered"
             /\ inserts' = Append(inserts, [sheet |-> current.sheet, docs |-> KeptRows(current, body.hasErrors),
                                           ok |-> inserts'[Len(inserts')].ok])
        /\ (pc = "filtered" /\ pc' # "filtered" /\ KeptRows(current, body.hasErrors) # <<>>) => inserts' # inserts
      ]_vars

\* three rows, errors = [{row: 3}] and an empty name at index 2: only the row at
\* index 0 is in the batch
C3_Witness ==
    /\ pc = "filtered"
    /\ body.hasErrors /\ current.hasErrorList
    /\ Len(current.rows) = 3
    /\ {current.errorList[j].row : j \in 1..Len(current.errorList)} = {3}
    /\ \A i \in 1..3 : "name" \in DOMAIN current.rows[i]
    /\ current.rows[1].name = Str(Bob) /\ current.rows[2].name = Str(Amy)
    /\ current.rows[3].name = Str(<<>>)
    /\ current.validRows = <<current.rows[1]>>

\* C7: when the bulk insert of a sheet fails, no insert is tried for a later
\* sheet and the answer is one error (500, no message, no count), while the
\* batches inserted before stay in the collection; when none fails, the count in
\* the message is the sum of the sizes of the batches inserted.
C7_InsertFailure ==
    /\ \A k \in 1..(Len(inserts) - 1) : inserts[k].ok
    /\ (Len(inserts) > 0 /\ ~inserts[Len(inserts)].ok) =>
         /\ pc = "imported"
         /\ res = [status |-> 500, kind |-> "error", count |-> 0]
    /\ LET kept == Flatten([k \in 1..Cardinality({j \in 1..Len(inserts) : inserts[j].ok}) |-> inserts[k].docs])
       IN  Len(db) >= Len(kept) /\ SubSeq(db, 1, Len(kept)) = kept
    /\ (pc = "imported" /\ res.status = 500) => (Len(inserts) > 0 /\ ~inserts[Len(inserts)].ok)
    /\ (pc = "imported" /\ res.status = 200) =>
         /\ res.kind = "message"
         /\ \A k \in 1..Len(inserts) : inserts[k].ok
         /\ res.count = Len(Flatten([k \in 1..Len(inserts) |-> inserts[k].docs]))
         /\ res.count = Len(db)

\* the first sheet is inserted, the insert of the second fails, and a third sheet
\* is never tried
C7_Witness ==
    /\ pc = "imported"
    /\ res.status = 500
    /\ Len(inserts) = 2
    /\ inserts[1].ok /\ ~inserts[2].ok
    /\ inserts[2].sheet = SheetName(2)
    /\ Len(body.order) = 3
    /\ db = inserts[1].docs /\ db # <<>>

====
